---- MODULE Spec2Model ----
(***************************************************************************)
(* A model of IdMap<T> (src/src/lib.rs): a container that gives each item  *)
(* a unique id.  The state of one map is its three fields: the set of      *)
(* valid ids, the buffer of Option<T> slots and the cached free cursor.    *)
(* Identifiers are 0-based as in the source; the buffer is a TLA+ sequence *)
(* so the slot of identifier id is values[id + 1].                         *)
(***************************************************************************)
EXTENDS Integers, Sequences, FiniteSets, TLC

VARIABLES ids, values, space, last, log, other

vars == <<ids, values, space, last, log, other>>

\* ------------------------------------------------------------------ bounds
\* Largest identifier a caller passes to insert_at / get_or_insert, and the
\* largest cursor at which a plain insert is still issued.
MaxId == 2
\* Number of distinct element values of T.
NumVals == 2
\* Longest iterator handed to extend().
MaxExt == 2
\* Largest number of inserts in the round trip of insert and get.
MaxN == 5
\* Largest identifier used where two maps are compared.
MaxEqId == 1

Vals == 1..NumVals
Ids == 0..MaxId
\* Identifiers used by the queries: one more than MaxId, so that an identifier
\* beyond the buffer is always among them.
QueryIds == 0..(MaxId + 1)
EqIds == 0..MaxEqId

\* Option::None in a slot or as a returned Option<T>.
None == 0
\* "no identifier" in the bookkeeping record.
NoId == -1
\* Outcome of a producer closure that panics instead of returning a value.
Fails == -1

\* ----------------------------------------------------------------- helpers
Min(S) == CHOOSE x \in S : \A y \in S : x <= y
Max(S) == CHOOSE x \in S : \A y \in S : x >= y

\* The increasing order in which id_set iterators yield the members of a set.
RECURSIVE IdSeq(_)
IdSeq(S) == IF S = {} THEN <<>> ELSE <<Min(S)>> \o IdSeq(S \ {Min(S)})

\* All sequences over S of length at most n.
RECURSIVE SeqsUpTo(_, _)
SeqsUpTo(S, n) ==
    IF n = 0 THEN {<<>>}
    ELSE LET shorter == SeqsUpTo(S, n - 1)
         IN  shorter \cup {Append(s, x) : s \in {t \in shorter : Len(t) = n - 1}, x \in S}

\* Result of one operation: the fields afterwards, the returned value, and the
\* panic (if any) that cut the operation short.
Ok(i, v, s, r) ==
    [ids |-> i, values |-> v, space |-> s, ret |-> r, panic |-> "", panicId |-> NoId]
Panic(i, v, s, kind, id) ==
    [ids |-> i, values |-> v, space |-> s, ret |-> None, panic |-> kind, panicId |-> id]

Map(i, v, s) == [ids |-> i, values |-> v, space |-> s]

\* Vec::resize_with(n, Default::default): pad with None up to length n.
RECURSIVE resize_with(_, _)
resize_with(v, n) ==
    IF Len(v) >= n THEN SubSeq(v, 1, n) ELSE resize_with(Append(v, None), n)

\* Vec::truncate(n): keep the first n slots, no effect when n >= len.
truncate(v, n) == IF n < Len(v) THEN SubSeq(v, 1, n) ELSE v

\* find_space: step past the slot just filled, then past every occupied id.
RECURSIVE skip_occupied(_, _)
skip_occupied(i, s) == IF s \in i THEN skip_occupied(i, s + 1) ELSE s

find_space_noscan(i, s) == s + 1

find_space(i, s) == skip_occupied(i, s + 1)


\* -------------------------------------------------------------- operations
\* Each operation is an operator from the map (a record of its three fields)
\* and the arguments to the result record.  A slot access values[id] panics
\* when id is outside the buffer, Option::unwrap panics on None.

\* insert that forgets to advance the cursor.
insert_stale(m, val) ==
    LET id == m.space
        v1 == IF id = Len(m.values) THEN resize_with(m.values, id + 1) ELSE m.values
    IN  IF id >= Len(v1)
        THEN Panic(m.ids, v1, m.space, "bounds", NoId)
        ELSE Ok(m.ids \cup {id}, [v1 EXCEPT ![id + 1] = val], m.space, id)

insert(m, val) ==
    LET id == m.space
        v1 == IF id = Len(m.values) THEN resize_with(m.values, id + 1) ELSE m.values
    IN  IF id >= Len(v1)
        THEN Panic(m.ids, v1, m.space, "bounds", NoId)
        ELSE LET i1 == m.ids \cup {id}
             IN  Ok(i1, [v1 EXCEPT ![id + 1] = val], find_space(i1, m.space), id)

\* The part insert_at and get_or_insert_with share for an id that was not in
\* the map: ids.insert(id) has returned true, the cursor is re-derived when
\* the id was the cursor, and the buffer is grown to hold the id.
claim_slot(m, id) ==
    LET i1 == m.ids \cup {id}
        s1 == IF id = m.space THEN find_space(i1, m.space) ELSE m.space
        v1 == IF Len(m.values) < id + 1 THEN resize_with(m.values, id + 1) ELSE m.values
    IN  Map(i1, v1, s1)

\* insert_at that leaves the stored value alone when the id is occupied.
insert_at_keep(m, id, val) ==
    IF id \notin m.ids
    THEN LET c == claim_slot(m, id)
         IN  Ok(c.ids, [c.values EXCEPT ![id + 1] = val], c.space, None)
    ELSE IF id >= Len(m.values)
         THEN Panic(m.ids, m.values, m.space, "bounds", NoId)
         ELSE IF m.values[id + 1] = None
              THEN Panic(m.ids, m.values, m.space, "unwrap", NoId)
              ELSE Ok(m.ids, m.values, m.space, m.values[id + 1])

insert_at(m, id, val) ==
    IF id \notin m.ids
    THEN LET c == claim_slot(m, id)
         IN  Ok(c.ids, [c.values EXCEPT ![id + 1] = val], c.space, None)
    ELSE IF id >= Len(m.values)
         THEN Panic(m.ids, m.values, m.space, "bounds", NoId)
         ELSE IF m.values[id + 1] = None
              THEN Panic(m.ids, m.values, m.space, "unwrap", NoId)
              ELSE Ok(m.ids, [m.values EXCEPT ![id + 1] = val], m.space, m.values[id + 1])

\* remove that overwrites the cursor instead of lowering it.
remove_nomin(m, id) ==
    IF id \in m.ids
    THEN IF id >= Len(m.values)
         THEN Panic(m.ids \ {id}, m.values, id, "bounds", NoId)
         ELSE Ok(m.ids \ {id}, [m.values EXCEPT ![id + 1] = None], id, m.values[id + 1])
    ELSE Ok(m.ids, m.values, m.space, None)

\* remove that lowers the cursor before it looks the id up.
remove_eager(m, id) ==
    IF id \in m.ids
    THEN IF id >= Len(m.values)
         THEN Panic(m.ids \ {id}, m.values, Min({m.space, id}), "bounds", NoId)
         ELSE Ok(m.ids \ {id}, [m.values EXCEPT ![id + 1] = None],
                 Min({m.space, id}), m.values[id + 1])
    ELSE Ok(m.ids, m.values, Min({m.space, id}), None)

\* remove that leaves the cursor where it was.
remove_nolower(m, id) ==
    IF id \in m.ids
    THEN IF id >= Len(m.values)
         THEN Panic(m.ids \ {id}, m.values, m.space, "bounds", NoId)
         ELSE Ok(m.ids \ {id}, [m.values EXCEPT ![id + 1] = None], m.space, m.values[id + 1])
    ELSE Ok(m.ids, m.values, m.space, None)

remove(m, id) ==
    IF id \in m.ids
    THEN IF id >= Len(m.values)
         THEN Panic(m.ids \ {id}, m.values, Min({m.space, id}), "bounds", NoId)
         ELSE Ok(m.ids \ {id}, [m.values EXCEPT ![id + 1] = None],
                 Min({m.space, id}), m.values[id + 1])
    ELSE Ok(m.ids, m.values, m.space, None)

\* get_or_insert_with that runs the producer before it looks the id up.
get_or_insert_with_eager(m, id, f) ==
    LET c == IF id \notin m.ids THEN claim_slot(m, id) ELSE m
    IN  IF f = Fails
        THEN Panic(m.ids, m.values, m.space, "producer", NoId)
        ELSE LET v2 == IF id \notin m.ids THEN [c.values EXCEPT ![id + 1] = f] ELSE c.values
             IN  IF id >= Len(v2)
                 THEN Panic(c.ids, v2, c.space, "bounds", NoId)
                 ELSE IF v2[id + 1] = None
                      THEN Panic(c.ids, v2, c.space, "unwrap", NoId)
                      ELSE Ok(c.ids, v2, c.space, v2[id + 1])

\* f is the outcome of the producer closure: a value, or Fails when it panics.
get_or_insert_with(m, id, f) ==
    LET c == IF id \notin m.ids THEN claim_slot(m, id) ELSE m
    IN  IF id \notin m.ids /\ f = Fails
        THEN Panic(c.ids, c.values, c.space, "producer", NoId)
        ELSE LET v2 == IF id \notin m.ids THEN [c.values EXCEPT ![id + 1] = f] ELSE c.values
             IN  IF id >= Len(v2)
                 THEN Panic(c.ids, v2, c.space, "bounds", NoId)
                 ELSE IF v2[id + 1] = None
                      THEN Panic(c.ids, v2, c.space, "unwrap", NoId)
                      ELSE Ok(c.ids, v2, c.space, v2[id + 1])

get_or_insert(m, id, val) == get_or_insert_with(m, id, val)

\* values[id] = None for each id of the sequence in turn; stops at the first
\* id outside the buffer.  Result: the buffer and whether the run panicked.
RECURSIVE set_none_run(_, _)
set_none_run(v, idseq) ==
    IF idseq = <<>> THEN [values |-> v, panicked |-> FALSE]
    ELSE IF Head(idseq) >= Len(v) THEN [values |-> v, panicked |-> TRUE]
    ELSE set_none_run([v EXCEPT ![Head(idseq) + 1] = None], Tail(idseq))

\* remove_set that lowers the cursor to the last id it removes.
remove_set_last(m, set) ==
    LET inter == m.ids \cap set
        s1 == IF inter = {} THEN m.space ELSE Min({m.space, Max(inter)})
        run == set_none_run(m.values, IdSeq(inter))
    IN  IF run.panicked
        THEN Panic(m.ids, run.values, s1, "bounds", NoId)
        ELSE Ok(m.ids \ set, run.values, s1, None)

remove_set(m, set) ==
    LET inter == m.ids \cap set
        s1 == IF inter = {} THEN m.space ELSE Min({m.space, Min(inter)})
        run == set_none_run(m.values, IdSeq(inter))
    IN  IF run.panicked
        THEN Panic(m.ids, run.values, s1, "bounds", NoId)
        ELSE Ok(m.ids \ set, run.values, s1, None)

\* The predicate handed to retain: keep (id, value) iff id is in keepIds and
\* the value is in keepVals.  Preds are the predicates tried: those that look
\* at the id only and those that look at the value only.
Preds ==
    {<<K, Vals>> : K \in SUBSET Ids} \cup {<<Ids, W>> : W \in SUBSET Vals}

pred(keepIds, keepVals, id, val) == id \in keepIds /\ val \in keepVals

\* The result of retain together with the calls made to the predicate, each
\* <<id, value>>, in the order they were made.
WithCalls(r, calls) ==
    [ids |-> r.ids, values |-> r.values, space |-> r.space, ret |-> r.ret,
     panic |-> r.panic, panicId |-> r.panicId, calls |-> calls]

\* IdSet::retain visits the ids in increasing order; acc is the map so far
\* and calls the predicate calls so far.
RECURSIVE retain_run(_, _, _, _, _)
retain_run(acc, calls, idseq, keepIds, keepVals) ==
    IF idseq = <<>> THEN WithCalls(Ok(acc.ids, acc.values, acc.space, None), calls)
    ELSE LET id == Head(idseq)
         IN  IF id >= Len(acc.values)
             THEN WithCalls(Panic(acc.ids, acc.values, acc.space, "bounds", NoId), calls)
             ELSE IF acc.values[id + 1] = None
                  THEN WithCalls(Panic(acc.ids, acc.values, acc.space, "unwrap", NoId), calls)
                  ELSE LET called == Append(calls, <<id, acc.values[id + 1]>>)
                       IN  IF pred(keepIds, keepVals, id, acc.values[id + 1])
                           THEN retain_run(acc, called, Tail(idseq), keepIds, keepVals)
                           ELSE retain_run(Map(acc.ids \ {id},
                                               [acc.values EXCEPT ![id + 1] = None],
                                               Min({acc.space, id})),
                                           called, Tail(idseq), keepIds, keepVals)

\* retain that puts the cursor back where it was.
retain_nolower(m, keepIds, keepVals) ==
    [retain_run(m, <<>>, IdSeq(m.ids), keepIds, keepVals) EXCEPT !.space = m.space]

\* retain that returns after the first id it removes.
retain_stop(m, keepIds, keepVals) ==
    LET drop == {i \in m.ids : i < Len(m.values) /\ ~pred(keepIds, keepVals, i, m.values[i + 1])}
        upto == {i \in m.ids : drop = {} \/ i <= Min(drop)}
    IN  retain_run(m, <<>>, IdSeq(upto), keepIds, keepVals)

retain(m, keepIds, keepVals) == retain_run(m, <<>>, IdSeq(m.ids), keepIds, keepVals)

\* drop_values that leaves the slots as they are.
drop_values_keep(m) == [values |-> m.values, panicked |-> FALSE]

drop_values(m) == set_none_run(m.values, IdSeq(m.ids))

clear(m) ==
    LET run == drop_values(m)
    IN  IF run.panicked
        THEN Panic(m.ids, run.values, m.space, "bounds", NoId)
        ELSE Ok({}, run.values, m.space, None)

\* shrink_to_fit that sizes the buffer by the number of ids.
shrink_capacities_len(i, v) == {Cardinality(i)}

\* The values ids.capacity() can have after ids.shrink_to_fit(): the id set is
\* an external collaborator whose capacity is only known to cover its members,
\* so every capacity from that minimum up to the buffer length is allowed
\* (a larger one truncates nothing).
shrink_capacities(i, v) ==
    LET need == IF i = {} THEN 0 ELSE Max(i) + 1
    IN  need..Max({need, Len(v)})

\* shrink_to_fit that also pulls the cursor back into the shortened buffer.
shrink_to_fit_clamp(m, cap) ==
    Ok(m.ids, truncate(m.values, cap), Min({m.space, Len(truncate(m.values, cap))}), None)

shrink_to_fit(m, cap) == Ok(m.ids, truncate(m.values, cap), m.space, None)

\* extend: insert each value of the iterator in turn; a panic ends the loop.
RECURSIVE extend_run(_, _)
extend_run(r, vs) ==
    IF vs = <<>> \/ r.panic # "" THEN r
    ELSE extend_run(insert(Map(r.ids, r.values, r.space), Head(vs)), Tail(vs))

extend(m, vs) == extend_run(Ok(m.ids, m.values, m.space, None), vs)

\* ----------------------------------------------------------------- queries
get(m, id) ==
    IF id \in m.ids
    THEN IF id >= Len(m.values)
         THEN Panic(m.ids, m.values, m.space, "bounds", NoId)
         ELSE IF m.values[id + 1] = None
              THEN Panic(m.ids, m.values, m.space, "unwrap", NoId)
              ELSE Ok(m.ids, m.values, m.space, m.values[id + 1])
    ELSE Ok(m.ids, m.values, m.space, None)

get_mut(m, id) == get(m, id)

\* Indexing that checks the buffer length instead of the id set.
index_by_len(m, id) ==
    IF id >= Len(m.values)
    THEN Panic(m.ids, m.values, m.space, "assert", id)
    ELSE IF m.values[id + 1] = None
         THEN Panic(m.ids, m.values, m.space, "unwrap", NoId)
         ELSE Ok(m.ids, m.values, m.space, m.values[id + 1])

\* The panic of kind "assert" carries the message "id {} out of bounds";
\* panicId is the identifier formatted into it.
index(m, id) ==
    IF id \notin m.ids
    THEN Panic(m.ids, m.values, m.space, "assert", id)
    ELSE IF id >= Len(m.values)
         THEN Panic(m.ids, m.values, m.space, "bounds", NoId)
         ELSE IF m.values[id + 1] = None
              THEN Panic(m.ids, m.values, m.space, "unwrap", NoId)
              ELSE Ok(m.ids, m.values, m.space, m.values[id + 1])

\* map[id] = val: index_mut, then the assignment through the reference.
index_mut(m, id, val) ==
    LET r == index(m, id)
    IN  IF r.panic # "" THEN r
        ELSE Ok(m.ids, [m.values EXCEPT ![id + 1] = val], m.space, val)


\* ---------------------------------------------------------------- equality
\* The zip(...).all(...) of PartialEq::eq over the common ids: it stops at the
\* first pair of values that differ.
RECURSIVE eq_run(_, _, _)
eq_run(a, b, idseq) ==
    IF idseq = <<>> THEN [ret |-> TRUE, panic |-> ""]
    ELSE LET id == Head(idseq)
         IN  IF id >= Len(a.values) \/ id >= Len(b.values)
             THEN [ret |-> FALSE, panic |-> "bounds"]
             ELSE IF a.values[id + 1] = None \/ b.values[id + 1] = None
                  THEN [ret |-> FALSE, panic |-> "unwrap"]
                  ELSE IF a.values[id + 1] # b.values[id + 1]
                       THEN [ret |-> FALSE, panic |-> ""]
                       ELSE eq_run(a, b, Tail(idseq))

\* Equality that compares the buffers slot by slot.
eq_by_buffer(a, b) ==
    [ret |-> a.ids = b.ids /\ a.values = b.values, panic |-> ""]

eq(a, b) ==
    IF a.ids # b.ids THEN [ret |-> FALSE, panic |-> ""]
    ELSE eq_run(a, b, IdSeq(a.ids))

\* #[derive(Clone)]: every field is cloned.
clone(m) == Map(m.ids, m.values, m.space)

\* --------------------------------------------------------------- iterators
\* ValuesMut, IterMut and IntoIter walk the ids in increasing order and move a
\* slice iterator over the buffer with nth(n).  prev is the id yielded before
\* (NoId for Option::None), pos the number of slots the slice iterator has
\* consumed.

\* The gap the design asks for: the first element skips current_id slots.
gap_from_start(prev, id) == IF prev = NoId THEN id ELSE id - prev - 1

\* n of `self.values.nth(n)`.
gap(prev, id) == IF prev = NoId THEN 0 ELSE id - prev - 1

\* One traversal to completion.  out collects <<id, slot index, value>> for
\* each element yielded; onNone is the panic raised on an empty slot.
RECURSIVE nth_run(_, _, _, _, _, _)
nth_run(v, idseq, prev, pos, out, onNone) ==
    IF idseq = <<>> THEN [out |-> out, panic |-> ""]
    ELSE LET id == Head(idseq)
             slot == pos + gap(prev, id)
         IN  IF slot >= Len(v)
             THEN [out |-> out, panic |-> "unwrap"]
             ELSE IF v[slot + 1] = None
                  THEN [out |-> out, panic |-> onNone]
                  ELSE nth_run(v, Tail(idseq), id, slot + 1,
                               Append(out, <<id, slot, v[slot + 1]>>), onNone)

values_mut(m) == nth_run(m.values, IdSeq(m.ids), NoId, 0, <<>>, "unwrap")
iter_mut(m) == nth_run(m.values, IdSeq(m.ids), NoId, 0, <<>>, "expect")
into_iter(m) == nth_run(m.values, IdSeq(m.ids), NoId, 0, <<>>, "expect")

\* Ids, Values and Iter walk the ids in increasing order; Values and Iter read
\* values[id] for each.  out collects <<id, slot index, value>>.

\* A traversal that reads the slots in buffer order instead of by id.
RECURSIVE index_run_pos(_, _, _)
index_run_pos(v, idseq, out) ==
    IF idseq = <<>> THEN [out |-> out, panic |-> ""]
    ELSE LET id == Head(idseq)
             slot == Len(out)
         IN  IF slot >= Len(v)
             THEN [out |-> out, panic |-> "bounds"]
             ELSE IF v[slot + 1] = None
                  THEN [out |-> out, panic |-> "unwrap"]
                  ELSE index_run_pos(v, Tail(idseq), Append(out, <<id, slot, v[slot + 1]>>))

RECURSIVE index_run(_, _, _)
index_run(v, idseq, out) ==
    IF idseq = <<>> THEN [out |-> out, panic |-> ""]
    ELSE LET id == Head(idseq)
         IN  IF id >= Len(v)
             THEN [out |-> out, panic |-> "bounds"]
             ELSE IF v[id + 1] = None
                  THEN [out |-> out, panic |-> "unwrap"]
                  ELSE index_run(v, Tail(idseq), Append(out, <<id, id, v[id + 1]>>))

\* Ids yields the ids alone: no slot is read.
iter_ids(m) ==
    [out |-> [k \in 1..Cardinality(m.ids) |-> <<IdSeq(m.ids)[k], NoId, None>>],
     panic |-> ""]
iter_values(m) == index_run(m.values, IdSeq(m.ids), <<>>)
iter(m) == index_run(m.values, IdSeq(m.ids), <<>>)

\* ------------------------------------------------------------------- state
\* IdMap::new()
new == Map({}, <<>>, 0)

\* The map as a record of its fields.
self == Map(ids, values, space)

\* last records the call whose result the caller holds: its name and
\* arguments, what it returned or how it panicked, the map before it (pre),
\* and, for insert, the id freed by the call just before together with the
\* cursor before that call.  For retain, out is the list of calls made to the
\* predicate and prior, when the call repeats the retain just before it with
\* the same predicate, the number of ids that retain removed.  Its op is
\* "none" when no result is outstanding.  For a comparison eq is its
\* result.
NoCall ==
    [op |-> "none", id |-> NoId, val |-> None, ret |-> None, panic |-> "",
     panicId |-> NoId, pre |-> new, freed |-> NoId, freedCur |-> NoId,
     prior |-> NoId, eq |-> FALSE, set |-> {}, vset |-> {}, seq |-> <<>>,
     out |-> <<>>]

Call(op, id, val, r) ==
    [NoCall EXCEPT !.op = op, !.id = id, !.val = val, !.ret = r.ret,
                   !.panic = r.panic, !.panicId = r.panicId, !.pre = self]

\* The previous call was a remove that found its id.
JustFreed == last.op = "remove" /\ last.ret # None

Init ==
    /\ ids = new.ids
    /\ values = new.values
    /\ space = new.space
    /\ last = NoCall
    /\ log = <<>>
    /\ other = new

\* A panic unwinds out of the program and a consumed map is gone: no call
\* follows either.
Alive == last.panic = "" /\ last.op # "into_iter"

\* The caller is done with the result of the call before.  What a call does
\* depends on the map alone, so calls are issued from here; only the plain
\* insert is also followed straight from the call before it, whose freed id it
\* records.
Ready == Alive /\ last.op = "none"

Becomes(r) ==
    /\ ids' = r.ids
    /\ values' = r.values
    /\ space' = r.space

\* ----------------------------------------------------------------- actions
Insert ==
    /\ Alive
    /\ space <= MaxId
    /\ \E val \in Vals :
         LET r == insert(self, val)
         IN  /\ Becomes(r)
             /\ last' = [Call("insert", NoId, val, r) EXCEPT
                           !.freed = IF JustFreed THEN last.id ELSE NoId,
                           !.freedCur = IF JustFreed THEN last.pre.space ELSE NoId]
    /\ UNCHANGED <<log, other>>

InsertAt ==
    /\ Ready
    /\ \E id \in Ids, val \in Vals :
         LET r == insert_at(self, id, val)
         IN  Becomes(r) /\ last' = Call("insert_at", id, val, r)
    /\ UNCHANGED <<log, other>>

Remove ==
    /\ Ready
    /\ \E id \in QueryIds :
         LET r == remove(self, id)
         IN  Becomes(r) /\ last' = Call("remove", id, None, r)
    /\ UNCHANGED <<log, other>>

GetOrInsert ==
    /\ Ready
    /\ \E id \in Ids, val \in Vals :
         LET r == get_or_insert(self, id, val)
         IN  Becomes(r) /\ last' = Call("get_or_insert", id, val, r)
    /\ UNCHANGED <<log, other>>

GetOrInsertWith ==
    /\ Ready
    /\ \E id \in Ids, f \in Vals \cup {Fails} :
         LET r == get_or_insert_with(self, id, f)
         IN  Becomes(r) /\ last' = Call("get_or_insert_with", id, f, r)
    /\ UNCHANGED <<log, other>>

RemoveSet ==
    /\ Ready
    /\ \E set \in SUBSET Ids :
         LET r == remove_set(self, set)
         IN  Becomes(r) /\ last' = [Call("remove_set", NoId, None, r) EXCEPT !.set = set]
    /\ UNCHANGED <<log, other>>

Retain ==
    /\ Ready
    /\ \E p \in Preds :
         LET r == retain(self, p[1], p[2])
         IN  /\ Becomes(r)
             /\ last' = [Call("retain", NoId, None, r)
                           EXCEPT !.set = p[1], !.vset = p[2], !.out = r.calls]
    /\ UNCHANGED <<log, other>>

\* retain called a second time with the predicate of the retain just before.
RetainAgain ==
    /\ Alive
    /\ last.op = "retain"
    /\ last.prior = NoId
    /\ LET r == retain(self, last.set, last.vset)
       IN  /\ Becomes(r)
           /\ last' = [Call("retain", NoId, None, r)
                         EXCEPT !.set = last.set, !.vset = last.vset, !.out = r.calls,
                                !.prior = Cardinality(last.pre.ids) - Cardinality(ids)]
    /\ UNCHANGED <<log, other>>

Clear ==
    /\ Ready
    /\ LET r == clear(self)
       IN  Becomes(r) /\ last' = Call("clear", NoId, None, r)
    /\ UNCHANGED <<log, other>>

ShrinkToFit ==
    /\ Ready
    /\ \E cap \in shrink_capacities(ids, values) :
         LET r == shrink_to_fit(self, cap)
         IN  Becomes(r) /\ last' = Call("shrink_to_fit", NoId, None, r)
    /\ UNCHANGED <<log, other>>

Extend ==
    /\ Ready
    /\ \E vs \in SeqsUpTo(Vals, MaxExt) :
         LET r == extend(self, vs)
         IN  /\ r.ids \subseteq Ids
             /\ Becomes(r)
             /\ last' = [Call("extend", NoId, None, r) EXCEPT !.seq = vs]
    /\ UNCHANGED <<log, other>>

Get ==
    /\ Ready
    /\ \E id \in QueryIds :
         LET r == get(self, id)
         IN  Becomes(r) /\ last' = Call("get", id, None, r)
    /\ UNCHANGED <<log, other>>

GetMut ==
    /\ Ready
    /\ \E id \in QueryIds :
         LET r == get_mut(self, id)
         IN  Becomes(r) /\ last' = Call("get_mut", id, None, r)
    /\ UNCHANGED <<log, other>>

Index ==
    /\ Ready
    /\ \E id \in QueryIds :
         LET r == index(self, id)
         IN  Becomes(r) /\ last' = Call("index", id, None, r)
    /\ UNCHANGED <<log, other>>

IndexMut ==
    /\ Ready
    /\ \E id \in QueryIds, val \in Vals :
         LET r == index_mut(self, id, val)
         IN  Becomes(r) /\ last' = Call("index_mut", id, val, r)
    /\ UNCHANGED <<log, other>>

\* `for v in map.values_mut() {}`: the traversal run to its end.
ValuesMut ==
    /\ Ready
    /\ LET t == values_mut(self)
       IN  last' = [NoCall EXCEPT !.op = "values_mut", !.panic = t.panic, !.out = t.out,
                                  !.pre = self]
    /\ UNCHANGED <<ids, values, space, log, other>>

IterMut ==
    /\ Ready
    /\ LET t == iter_mut(self)
       IN  last' = [NoCall EXCEPT !.op = "iter_mut", !.panic = t.panic, !.out = t.out,
                                  !.pre = self]
    /\ UNCHANGED <<ids, values, space, log, other>>

\* into_iter takes the map by value; its fields are kept as they were when
\* the map was moved into the iterator.
IntoIter ==
    /\ Ready
    /\ LET t == into_iter(self)
       IN  last' = [NoCall EXCEPT !.op = "into_iter", !.panic = t.panic, !.out = t.out,
                                  !.pre = self]
    /\ UNCHANGED <<ids, values, space, log, other>>

\* `for id in map.ids() {}`, `for v in map.values() {}` and
\* `for (id, v) in map.iter() {}`, each run to its end.
IterIds ==
    /\ Ready
    /\ LET t == iter_ids(self)
       IN  last' = [NoCall EXCEPT !.op = "ids", !.panic = t.panic, !.out = t.out,
                                  !.pre = self]
    /\ UNCHANGED <<ids, values, space, log, other>>

IterValues ==
    /\ Ready
    /\ LET t == iter_values(self)
       IN  last' = [NoCall EXCEPT !.op = "values", !.panic = t.panic, !.out = t.out,
                                  !.pre = self]
    /\ UNCHANGED <<ids, values, space, log, other>>

Iter ==
    /\ Ready
    /\ LET t == iter(self)
       IN  last' = [NoCall EXCEPT !.op = "iter", !.panic = t.panic, !.out = t.out,
                                  !.pre = self]
    /\ UNCHANGED <<ids, values, space, log, other>>

\* The call has returned and the caller has consumed its result.
Returned ==
    /\ Alive
    /\ last.op # "none"
    /\ last' = NoCall
    /\ UNCHANGED <<ids, values, space, log, other>>

Next ==
    \/ Returned
    \/ Insert
    \/ InsertAt
    \/ Remove
    \/ GetOrInsert
    \/ GetOrInsertWith
    \/ RemoveSet
    \/ Retain
    \/ RetainAgain
    \/ Clear
    \/ ShrinkToFit
    \/ Extend
    \/ Get
    \/ GetMut
    \/ Index
    \/ IndexMut
    \/ ValuesMut
    \/ IterMut
    \/ IntoIter
    \/ IterIds
    \/ IterValues
    \/ Iter

Spec == Init /\ [][Next]_vars

\* ------------------------------------------------- round trip of insert/get
\* A new map that is only inserted into and read from; log is the list of
\* <<returned id, inserted value>> in insertion order.
InsertLogged ==
    /\ Alive
    /\ Len(log) < MaxN
    /\ \E val \in Vals :
         LET r == insert(self, val)
         IN  /\ Becomes(r)
             /\ last' = Call("insert", NoId, val, r)
             /\ log' = IF r.panic = "" THEN Append(log, <<r.ret, val>>) ELSE log
    /\ UNCHANGED other

GetLogged ==
    /\ Alive
    /\ \E k \in 1..Len(log) :
         LET r == get(self, log[k][1])
         IN  Becomes(r) /\ last' = Call("get", log[k][1], None, r)
    /\ UNCHANGED <<log, other>>

NextRT ==
    \/ InsertLogged
    \/ GetLogged

SpecRT == Init /\ [][NextRT]_vars


\* ------------------------------------------------------ two maps compared
\* The map is changed by insert, insert_at, remove, clear and shrink_to_fit;
\* other is a clone of it taken at some moment, from which values may be
\* removed.  A call on the map that returns leaves no result to keep.
Settle(op, id, val, r) ==
    /\ Becomes(r)
    /\ last' = IF r.panic = "" THEN NoCall ELSE Call(op, id, val, r)
    /\ UNCHANGED <<log, other>>

EqInsert ==
    /\ Ready
    /\ space <= MaxEqId
    /\ \E val \in Vals : Settle("insert", NoId, val, insert(self, val))

EqInsertAt ==
    /\ Ready
    /\ \E id \in EqIds, val \in Vals : Settle("insert_at", id, val, insert_at(self, id, val))

EqRemove ==
    /\ Ready
    /\ \E id \in EqIds : Settle("remove", id, None, remove(self, id))

EqClear ==
    /\ Ready
    /\ Settle("clear", NoId, None, clear(self))

EqShrinkToFit ==
    /\ Ready
    /\ \E cap \in shrink_capacities(ids, values) :
         Settle("shrink_to_fit", NoId, None, shrink_to_fit(self, cap))

\* other = map.clone()
Clone ==
    /\ Ready
    /\ other' = clone(self)
    /\ last' = [NoCall EXCEPT !.op = "clone", !.pre = other]
    /\ UNCHANGED <<ids, values, space, log>>

\* other.remove(id); pre is other before the call.
RemoveOther ==
    /\ Ready
    /\ \E id \in EqIds :
         LET r == remove(other, id)
         IN  /\ other' = Map(r.ids, r.values, r.space)
             /\ last' = [NoCall EXCEPT !.op = "remove_other", !.id = id, !.ret = r.ret,
                                       !.panic = r.panic, !.pre = other]
    /\ UNCHANGED <<ids, values, space, log>>

\* map == other
Eq ==
    /\ Ready
    /\ LET r == eq(self, other)
       IN  last' = [NoCall EXCEPT !.op = "eq", !.eq = r.ret, !.panic = r.panic,
                                  !.pre = self]
    /\ UNCHANGED <<ids, values, space, log, other>>

NextEq ==
    \/ Returned
    \/ EqInsert
    \/ EqInsertAt
    \/ EqRemove
    \/ EqClear
    \/ EqShrinkToFit
    \/ Clone
    \/ RemoveOther
    \/ Eq

SpecEq == Init /\ [][NextEq]_vars


\* ================================================================== claims
MutatingOps ==
    {"insert", "insert_at", "remove", "remove_set", "retain", "get_or_insert",
     "get_or_insert_with", "clear", "shrink_to_fit", "extend"}

\* The smallest identifier that is not in the set i.
MinFree(i) == Min({k \in 0..(Cardinality(i)) : k \notin i})

\* Reading identifier i gives the same outcome before and after the call.
SameEntry(i) ==
    /\ get(self, i).ret = get(last.pre, i).ret
    /\ get(self, i).panic = get(last.pre, i).panic

\* The call left the ids, the values and the cursor as they were.
MapUnchanged == self = last.pre

\* C1: after every public mutating operation returns, the free cursor is the
\* smallest unoccupied identifier: every i < space is occupied and space itself
\* is not.
C1_FreeCursorInvariant ==
    (last.op \in MutatingOps /\ last.panic = "")
        => /\ \A i \in 0..(space - 1) : i \in ids
           /\ space \notin ids

\* C2: insert(value) returns the smallest identifier that was not occupied
\* immediately before the call; afterwards that identifier is occupied and
\* get(id) yields the inserted value.
C2_InsertReturnsSmallestFree ==
    last.op = "insert"
        => /\ last.panic = ""
           /\ last.ret = MinFree(last.pre.ids)
           /\ last.ret \in ids
           /\ get(self, last.ret).panic = ""
           /\ get(self, last.ret).ret = last.val

\* C3: the mutable and consuming iterators run to completion on every
\* reachable map and pair each yielded identifier with the slot at that index
\* (and so with the value stored at that identifier), one element per
\* occupied identifier.
C3_MutIteratorsPairSlots ==
    last.op \in {"values_mut", "iter_mut", "into_iter"}
        => /\ last.panic = ""
           /\ Len(last.out) = Cardinality(ids)
           /\ \A k \in 1..Len(last.out) :
                /\ last.out[k][1] \in ids
                /\ last.out[k][2] = last.out[k][1]
                /\ last.out[k][3] = get(self, last.out[k][1]).ret

\* C4: round trip.  In a new map that has only been inserted into, the k-th
\* insert returned identifier k - 1 and reading any returned identifier back
\* yields the value inserted with it.
C4_RoundTrip ==
    /\ \A k \in 1..Len(log) :
         /\ log[k][1] = k - 1
         /\ get(self, log[k][1]).panic = ""
         /\ get(self, log[k][1]).ret = log[k][2]
    /\ last.op = "get"
         => /\ last.panic = ""
            /\ last.ret = log[last.id + 1][2]

C4_Witness ==
    /\ Len(log) = 3
    /\ log[1][2] # log[2][2]
    /\ last.op = "get"
    /\ last.id = 1
    /\ last.ret = log[2][2]

\* C5 as stated: after removing identifier k, the smallest occupied
\* identifier, the next plain insert returns k.
C5_ReuseOfSmallestOccupied ==
    (/\ last.op = "insert"
     /\ last.freed # NoId
     /\ \A i \in last.pre.ids : last.freed < i)
        => (last.panic = "" /\ last.ret = last.freed)

\* C5 amended: after removing identifier k, the smallest occupied identifier,
\* where k is also below the free cursor next_id(), the next plain insert
\* returns k.
C5_ReuseBelowCursor ==
    (/\ last.op = "insert"
     /\ last.freed # NoId
     /\ \A i \in last.pre.ids : last.freed < i
     /\ last.freed < last.freedCur)
        => (last.panic = "" /\ last.ret = last.freed)

\* The insert that follows the removal of the smallest of several occupied
\* identifiers, which was below the cursor.
C5_Witness ==
    /\ last.op = "insert"
    /\ last.panic = ""
    /\ last.freed # NoId
    /\ last.freed < last.freedCur
    /\ last.pre.ids # {}
    /\ \A i \in last.pre.ids : last.freed < i
    /\ last.ret = last.freed

\* C6: in every reachable state every occupied identifier is strictly less
\* than the length of the values buffer.
C6_IdsBelowStorageBound ==
    \A i \in ids : i < Len(values)

\* shrink_to_fit has cut the buffer down to exactly the largest occupied
\* identifier plus one.
C6_Witness ==
    /\ last.op = "shrink_to_fit"
    /\ ids # {}
    /\ Len(values) < Len(last.pre.values)
    /\ Len(values) = Max(ids) + 1

\* C7: the identifier insert returns was not occupied before the call, and
\* every identifier occupied before the call is still occupied afterwards with
\* its value unchanged.
C7_InsertKeepsLiveData ==
    (last.op = "insert" /\ last.panic = "")
        => /\ last.ret \notin last.pre.ids
           /\ \A i \in last.pre.ids : i \in ids /\ SameEntry(i)

\* insert has filled a hole between occupied identifiers.
C7_Witness ==
    /\ last.op = "insert"
    /\ last.panic = ""
    /\ \E i \in last.pre.ids : i > last.ret
    /\ \E i \in last.pre.ids : i < last.ret

\* C8: remove(id) on an occupied identifier returns the value stored at id,
\* leaves id unoccupied and every other entry unchanged, and sets the cursor
\* to min(previous cursor, id).
C8_RemoveOccupied ==
    (last.op = "remove" /\ last.id \in last.pre.ids)
        => /\ last.panic = ""
           /\ last.ret = get(last.pre, last.id).ret
           /\ ids = last.pre.ids \ {last.id}
           /\ \A j \in ids : SameEntry(j)
           /\ space = Min({last.pre.space, last.id})

\* An occupied identifier above the cursor was removed from below another.
C8_Witness ==
    /\ last.op = "remove"
    /\ last.id \in last.pre.ids
    /\ last.pre.space < last.id
    /\ space = last.pre.space
    /\ \E i \in ids : i > last.id

\* C9: remove, get and get_mut on an identifier that is not occupied return
\* absence, never fail, and leave the ids, the values and the cursor unchanged.
C9_AbsentIdIsNoOp ==
    (last.op \in {"remove", "get", "get_mut"} /\ last.id \notin last.pre.ids)
        => /\ last.ret = None
           /\ last.panic = ""
           /\ MapUnchanged

\* remove of an identifier beyond the buffer of a map that is not empty and
\* whose cursor is below that identifier.
C9_Witness ==
    /\ last.op = "remove"
    /\ last.id \notin last.pre.ids
    /\ last.id >= Len(last.pre.values)
    /\ last.id > last.pre.space
    /\ last.pre.ids # {}
    /\ last.ret = None

\* C10: map[id] and map[id] = v panic with the diagnostic naming id exactly
\* when id is not occupied, and then leave the map unchanged; when id is
\* occupied the read yields the value stored at id and the write stores v
\* there.
C10_IndexPanicsIffAbsent ==
    last.op \in {"index", "index_mut"}
        => /\ last.id \notin last.pre.ids
                => /\ last.panic = "assert"
                   /\ last.panicId = last.id
                   /\ MapUnchanged
           /\ last.id \in last.pre.ids
                => /\ last.panic = ""
                   /\ ids = last.pre.ids
                   /\ space = last.pre.space
                   /\ last.op = "index"
                        => /\ last.ret = get(last.pre, last.id).ret
                           /\ MapUnchanged
                   /\ last.op = "index_mut"
                        => /\ get(self, last.id).ret = last.val
                           /\ \A j \in ids \ {last.id} : SameEntry(j)

\* A write through the index to an unoccupied slot inside the buffer.
C10_Witness ==
    /\ last.op = "index_mut"
    /\ last.id \notin last.pre.ids
    /\ last.id < Len(last.pre.values)
    /\ last.pre.ids # {}
    /\ last.panic = "assert"
    /\ last.panicId = last.id

\* The free cursor of map m is its smallest unoccupied identifier.
CursorIsMinFree(m) ==
    /\ \A i \in 0..(m.space - 1) : i \in m.ids
    /\ m.space \notin m.ids

\* C11: insert_at(id, value) on an unoccupied identifier returns no previous
\* value, makes id occupied holding value, leaves all other entries unchanged,
\* grows the buffer to hold id, and leaves the cursor the smallest unoccupied
\* identifier, the id being at the cursor or above it (never below).
C11_InsertAtNewId ==
    (last.op = "insert_at" /\ last.id \notin last.pre.ids)
        => /\ last.panic = ""
           /\ last.ret = None
           /\ ids = last.pre.ids \cup {last.id}
           /\ get(self, last.id).ret = last.val
           /\ \A j \in last.pre.ids : SameEntry(j)
           /\ Len(values) >= last.id + 1
           /\ last.id >= last.pre.space
           /\ CursorIsMinFree(self)

\* C12: insert_at(id, value) on an occupied identifier replaces the stored
\* value in place and returns the old value; the ids, len(), the cursor and
\* all other values are unchanged.
C12_InsertAtOccupied ==
    (last.op = "insert_at" /\ last.id \in last.pre.ids)
        => /\ last.panic = ""
           /\ last.ret = get(last.pre, last.id).ret
           /\ get(self, last.id).ret = last.val
           /\ ids = last.pre.ids
           /\ Cardinality(ids) = Cardinality(last.pre.ids)
           /\ space = last.pre.space
           /\ Len(values) = Len(last.pre.values)
           /\ \A j \in ids \ {last.id} : SameEntry(j)

\* An occupied identifier between two others got a different value.
C12_Witness ==
    /\ last.op = "insert_at"
    /\ last.id \in last.pre.ids
    /\ last.ret # last.val
    /\ \E j \in ids : j < last.id
    /\ \E j \in ids : j > last.id

\* C13: get_or_insert / get_or_insert_with on an occupied identifier returns
\* the existing value without running the producer or storing anything, and
\* leaves the map unchanged; on an unoccupied identifier the map afterwards is
\* the map insert_at(id, value) gives and the new value is returned.
C13_GetOrInsert ==
    last.op \in {"get_or_insert", "get_or_insert_with"}
        => /\ last.id \in last.pre.ids
                => /\ last.panic = ""
                   /\ last.ret = get(last.pre, last.id).ret
                   /\ MapUnchanged
           /\ (last.id \notin last.pre.ids /\ last.val # Fails)
                => /\ last.panic = ""
                   /\ last.ret = last.val
                   /\ get(self, last.id).ret = last.val
                   /\ \A j \in last.pre.ids : SameEntry(j)
                   /\ LET r == insert_at(last.pre, last.id, last.val)
                      IN  self = Map(r.ids, r.values, r.space)

\* A producer that would panic was handed over for an occupied identifier.
C13_Witness ==
    /\ last.op = "get_or_insert_with"
    /\ last.val = Fails
    /\ last.id \in last.pre.ids
    /\ last.ret \in Vals
    /\ last.panic = ""

\* C14: remove_set(ids) leaves the occupancy equal to the previous occupancy
\* minus ids and the values of the remaining identifiers unchanged, ignores
\* members that are not occupied or lie beyond the buffer, and lowers the
\* cursor to the smallest removed identifier when that is below it.
C14_RemoveSet ==
    last.op = "remove_set"
        => LET removed == last.pre.ids \cap last.set
           IN  /\ last.panic = ""
               /\ ids = last.pre.ids \ last.set
               /\ \A j \in ids : SameEntry(j)
               /\ Len(values) = Len(last.pre.values)
               /\ removed = {} => MapUnchanged
               /\ removed # {} => space = Min({last.pre.space, Min(removed)})

\* Two identifiers below the cursor were removed by a set that also names an
\* identifier beyond the buffer.
C14_Witness ==
    /\ last.op = "remove_set"
    /\ Cardinality(last.pre.ids \cap last.set) >= 2
    /\ \E i \in last.set : i >= Len(last.pre.values)
    /\ space < last.pre.space
    /\ space = Min(last.pre.ids \cap last.set)

\* The ids retain drops from the map before the call.
Dropped ==
    {i \in last.pre.ids : ~pred(last.set, last.vset, i, get(last.pre, i).ret)}

\* C15: retain(predicate) calls the predicate exactly once for each occupied
\* identifier, in increasing identifier order, with the value stored there;
\* afterwards the occupied identifiers are those the predicate accepted, their
\* values are unchanged, and the cursor is min(previous cursor, smallest
\* removed identifier).
C15_Retain ==
    last.op = "retain"
        => LET order == IdSeq(last.pre.ids)
           IN  /\ last.panic = ""
               /\ Len(last.out) = Len(order)
               /\ \A k \in 1..Len(order) :
                    /\ last.out[k][1] = order[k]
                    /\ last.out[k][2] = get(last.pre, order[k]).ret
               /\ ids = last.pre.ids \ Dropped
               /\ \A j \in ids : SameEntry(j)
               /\ space = Min({last.pre.space} \cup Dropped)

\* A predicate on the value dropped an identifier below the cursor and kept
\* another.
C15_Witness ==
    /\ last.op = "retain"
    /\ last.prior = NoId
    /\ last.set = Ids
    /\ Dropped # {}
    /\ ids # {}
    /\ space < last.pre.space
    /\ Len(last.out) >= 2

\* C16: retain idempotence.  A second retain with the same predicate leaves
\* the ids, the values and the cursor as the first one left them.
C16_RetainIdempotent ==
    (last.op = "retain" /\ last.prior # NoId)
        => /\ last.panic = ""
           /\ MapUnchanged

\* The first retain removed two identifiers and kept one.
C16_Witness ==
    /\ last.op = "retain"
    /\ last.prior >= 2
    /\ ids # {}

\* C18: ids(), values() and iter() yield exactly the occupied identifiers,
\* each once, in strictly increasing order, each paired with the value stored
\* at that identifier, and yield len() elements.
C18_ReadIterators ==
    last.op \in {"ids", "values", "iter"}
        => /\ last.panic = ""
           /\ Len(last.out) = Cardinality(ids)
           /\ {last.out[k][1] : k \in 1..Len(last.out)} = ids
           /\ \A k \in 1..(Len(last.out) - 1) : last.out[k][1] < last.out[k + 1][1]
           /\ last.op \in {"values", "iter"}
                => \A k \in 1..Len(last.out) :
                     last.out[k][3] = get(self, last.out[k][1]).ret

\* values() over a map whose smallest identifier is not 0 and whose two
\* entries hold different values.
C18_Witness ==
    /\ last.op = "values"
    /\ Len(last.out) = 2
    /\ last.out[1][1] > 0
    /\ last.out[1][3] # last.out[2][3]

\* C19: within one traversal of values_mut() or iter_mut() the slot positions
\* yielded are strictly increasing, so no two references alias, and their
\* number equals len().
C19_MutIteratorsNoAlias ==
    last.op \in {"values_mut", "iter_mut"}
        => /\ \A k \in 1..(Len(last.out) - 1) : last.out[k][2] < last.out[k + 1][2]
           /\ Len(last.out) = Cardinality(ids)

\* C20: shrink_to_fit() leaves the ids, the value stored at each occupied
\* identifier, len() and next_id() as they were.
C20_ShrinkKeepsEntries ==
    last.op = "shrink_to_fit"
        => /\ last.panic = ""
           /\ ids = last.pre.ids
           /\ Cardinality(ids) = Cardinality(last.pre.ids)
           /\ \A j \in ids : SameEntry(j)
           /\ space = last.pre.space

\* shrink_to_fit has shortened the buffer of a map with a free identifier
\* below an occupied one.
C20_Witness ==
    /\ last.op = "shrink_to_fit"
    /\ Len(values) < Len(last.pre.values)
    /\ \E j \in ids : space < j

\* The two maps hold the same identifiers with the same value at each.
SameContents(a, b) ==
    /\ a.ids = b.ids
    /\ \A i \in a.ids : get(a, i).ret = get(b, i).ret

\* C17: two maps compare equal if and only if their occupancy sets are equal
\* and the values stored at each identifier are equal, whatever their buffer
\* lengths and cursors; a clone equals its source, and removing a value from
\* one of two equal maps makes them unequal.
C17_Equality ==
    /\ last.op = "eq"
         => /\ last.panic = ""
            /\ last.eq <=> SameContents(self, other)
    /\ last.op = "clone"
         => /\ eq(self, other).panic = ""
            /\ eq(self, other).ret
    /\ (last.op = "remove_other" /\ last.ret # None /\ eq(self, last.pre).ret)
         => /\ eq(self, other).panic = ""
            /\ ~eq(self, other).ret

\* Two maps with different histories found equal: their buffer lengths and
\* their cursors differ.
C17_Witness ==
    /\ last.op = "eq"
    /\ last.eq
    /\ ids # {}
    /\ Len(values) # Len(other.values)
    /\ space # other.space

\* C21: when the producer passed to get_or_insert_with for an unoccupied
\* identifier panics, the map is left with a stored value behind every
\* identifier it reports occupied (get returns a value without failing) and
\* with the cursor at its smallest unoccupied identifier.
C21_ProducerPanicKeepsInvariants ==
    (last.op = "get_or_insert_with" /\ last.panic = "producer")
        => /\ \A i \in ids : get(self, i).panic = "" /\ get(self, i).ret # None
           /\ CursorIsMinFree(self)

\* C22: as long as every call has returned normally, a slot of the buffer
\* holds a value if and only if its index is in the occupancy set; no read
\* unwraps an empty slot of an occupied identifier.
C22_SlotsMatchOccupancy ==
    last.panic = ""
        => /\ \A k \in 0..(Len(values) - 1) : values[k + 1] # None <=> k \in ids
           /\ \A i \in ids : get(self, i).panic # "unwrap" /\ get_mut(self, i).panic # "unwrap"
           /\ eq(self, self).panic # "unwrap"
           /\ iter_values(self).panic # "unwrap"
           /\ iter(self).panic # "unwrap"
           /\ \A p \in Preds : retain(self, p[1], p[2]).panic # "unwrap"

\* A remove_set or retain has just emptied a slot inside the buffer while
\* another identifier stays occupied.
C22_Witness ==
    /\ last.op \in {"remove_set", "retain"}
    /\ last.panic = ""
    /\ ids # {}
    /\ \E k \in 0..(Len(values) - 1) : k \notin ids /\ last.pre.values[k + 1] # None

\* C23: the cursor is at most the length of the buffer in every state, so
\* insert always completes and returns the identifier next_id() reported just
\* before the call.
C23_CursorWithinBuffer ==
    /\ space <= Len(values)
    /\ last.op = "insert" => last.panic = "" /\ last.ret = last.pre.space

====
